---- MODULE Spec2Model ----
(***************************************************************************)
(* Model of src/src/main.rs: Block (construction, digest, proof-of-work     *)
(* mining) and Blockchain (genesis, add_block, is_valid_chain).             *)
(*                                                                          *)
(* A Rust String is modelled as the sequence of its bytes (ASCII codes), so *)
(* that format!'s concatenation, "{}" of an integer and "{:x}" of a digest  *)
(* are computed and not assumed.                                            *)
(*                                                                          *)
(* The SHA-256 primitive is an external service (sha2 crate).  It is        *)
(* modelled by Sha256 below: a deterministic, collision-free digest whose   *)
(* first two bytes carry the proof-of-work outcome and vary with the        *)
(* content, so that the mining loop has failing and succeeding trials.      *)
(***************************************************************************)
EXTENDS Integers, Sequences, FiniteSets, TLC

\* ------------------------------------------------------------------ bounds
\* Largest number of blocks a chain grows to in the model.
MaxChain == 3

\* ------------------------------------------------------- program constants
\* block.mine_block(4)
Difficulty == 4

\* ------------------------------------------------------------ input values
\* Values returned by Utc::now().timestamp()
TimeValues == {1, 11}
\* Payloads given to add_block / Block::new: "" and "1"
DataValues == {<<>>, <<49>>}
\* "Genesis Block"
GenesisData == <<71, 101, 110, 101, 115, 105, 115, 32, 66, 108, 111, 99, 107>>
\* Arguments of a direct Block::new call: index, and prev_hash "P"
IndexValues == {1, 11}
PrevHashValues == {<<80>>}
\* Nonces an outside mutation may write
NonceValues == 0..2

VARIABLES
    chain,      \* Blockchain.chain : Vec<Block>
    chain_2,    \* a second, independently constructed Blockchain (<<>> = not yet constructed)
    block,      \* the Block returned by the last direct Block::new call (<<>> = none yet)
    valid_ret,  \* return value of is_valid_chain if it was the last call on chain, else "none"
    tampered,   \* TRUE once a field of a block of chain was overwritten from outside
    new_clock,  \* wall clock readings at the Blockchain::new calls, in call order
    call_args,  \* data argument and clock reading of the last add_block call (<<>> = none yet)
    pc,         \* "idle", or the call whose mining loop is running: "new" / "add_block"
    work        \* the local block a running mining loop works on (<<>> = none)

vars == <<chain, chain_2, block, valid_ret, tampered, new_clock, call_args, pc, work>>

\* the variables of a running mining loop
mining_vars == <<pc, work>>

\* ------------------------------------------------------------- formatting
RECURSIVE Dec(_)
\* decimal digits of a natural number
Dec(n) == IF n < 10 THEN <<48 + n>> ELSE Dec(n \div 10) \o <<48 + (n % 10)>>

\* "{}" of an integer (u32, i64, u64)
Display(n) == IF n < 0 THEN <<45>> \o Dec(0 - n) ELSE Dec(n)

HexDigit(d) == IF d < 10 THEN 48 + d ELSE 87 + d

\* "{:x}" of a digest: two lowercase hex digits per byte
LowerHex(bytes) ==
    [i \in 1..(2 * Len(bytes)) |->
        IF i % 2 = 1 THEN HexDigit(bytes[(i + 1) \div 2] \div 16)
                     ELSE HexDigit(bytes[(i + 1) \div 2] % 16)]

RECURSIVE SumRange(_, _, _)
\* sum of the bytes s[lo..hi]
SumRange(s, lo, hi) ==
    IF lo > hi THEN 0
    ELSE IF lo = hi THEN s[lo]
    ELSE SumRange(s, lo, (lo + hi) \div 2) + SumRange(s, ((lo + hi) \div 2) + 1, hi)

ByteSum(s) == SumRange(s, 1, Len(s))

\* Sha256::new(); update(content); finalize()
\* Deterministic and collision-free: two work bytes (both zero for one content
\* in six) followed by the content itself.
Sha256(content) ==
    LET sum == ByteSum(content)
    IN  <<176 * (sum % 2), 7 * (sum % 3)>> \o content

\* "0".repeat(n)
Repeat0(n) == [i \in 1..n |-> 48]

\* ------------------------------------------------------------------ Block
\* variant: the fields are separated by '|'
Content_Delimited(b) ==
    Display(b.index) \o <<124>> \o Display(b.timestamp) \o <<124>> \o b.data
        \o <<124>> \o b.prev_hash \o <<124>> \o Display(b.nonce)

\* variant: the payload is left out of the digest input
Content_NoData(b) ==
    Display(b.index) \o Display(b.timestamp) \o b.prev_hash \o Display(b.nonce)

\* format!("{}{}{}{}{}", index, timestamp, data, prev_hash, nonce)
Content(b) ==
    Display(b.index) \o Display(b.timestamp) \o b.data \o b.prev_hash \o Display(b.nonce)

calculate_hash(b) == LowerHex(Sha256(Content(b)))

\* variant: the nonce advances by 2
MineStep_SkipOne(b) ==
    LET n == [b EXCEPT !.nonce = b.nonce + 2]
    IN  [n EXCEPT !.hash = calculate_hash(n)]

\* one iteration of the while body: self.nonce += 1; self.hash = self.calculate_hash()
\* (the u64 nonce stays far below 2^64 here)
MineStep(b) ==
    LET n == [b EXCEPT !.nonce = b.nonce + 1]
    IN  [n EXCEPT !.hash = calculate_hash(n)]

RECURSIVE MineLoop(_, _)
\* while &self.hash[..difficulty] != target { ... }
MineLoop(b, difficulty) ==
    IF SubSeq(b.hash, 1, difficulty) # Repeat0(difficulty)
    THEN MineLoop(MineStep(b), difficulty)
    ELSE b

\* variant: the nonce is incremented once more after the winning digest
mine_block_PostIncrement(b, difficulty) ==
    LET r == MineLoop([b EXCEPT !.hash = calculate_hash(b)], difficulty)
    IN  [r EXCEPT !.nonce = r.nonce + 1]

\* fn mine_block(&mut self, difficulty: usize)
mine_block(b, difficulty) ==
    MineLoop([b EXCEPT !.hash = calculate_hash(b)], difficulty)

\* variant: the block is mined before its timestamp is taken
BlockNew_StampAfterMining(index, data, prev_hash, utc_now) ==
    [mine_block([index |-> index, timestamp |-> 0, data |-> data,
                 prev_hash |-> prev_hash, hash |-> <<>>, nonce |-> 0], Difficulty)
        EXCEPT !.timestamp = utc_now]

\* variant: the block is mined at difficulty 3
BlockNew_Difficulty3(index, data, prev_hash, utc_now) ==
    mine_block([index |-> index, timestamp |-> utc_now, data |-> data,
                prev_hash |-> prev_hash, hash |-> <<>>, nonce |-> 0], 3)

\* Block::new(index, data, prev_hash); utc_now is what Utc::now().timestamp() returns
BlockNew(index, data, prev_hash, utc_now) ==
    mine_block([index |-> index, timestamp |-> utc_now, data |-> data,
                prev_hash |-> prev_hash, hash |-> <<>>, nonce |-> 0], Difficulty)

\* ------------------------------------------------------------- Blockchain
\* variant: another genesis label
GenesisBlock_OtherLabel(utc_now) ==
    [index |-> 0, timestamp |-> 0, data |-> <<71, 101, 110, 101, 115, 105, 115>>,
     prev_hash |-> <<>>, hash |-> <<>>, nonce |-> 0]

\* variant: genesis stamped with the wall clock
GenesisBlock_WallClock(utc_now) ==
    [index |-> 0, timestamp |-> utc_now, data |-> GenesisData,
     prev_hash |-> <<>>, hash |-> <<>>, nonce |-> 0]

\* variant: genesis with prev_hash "0"
GenesisBlock_PrevZero(utc_now) ==
    [index |-> 0, timestamp |-> 0, data |-> GenesisData,
     prev_hash |-> <<48>>, hash |-> <<>>, nonce |-> 0]

\* the genesis block literal of Blockchain::new; utc_now is the wall clock at
\* the call, which the code does not read
GenesisBlock(utc_now) ==
    [index |-> 0, timestamp |-> 0, data |-> GenesisData,
     prev_hash |-> <<>>, hash |-> <<>>, nonce |-> 0]

\* Blockchain::new()
BlockchainNew(utc_now) == <<mine_block(GenesisBlock(utc_now), Difficulty)>>

\* variant: the first block instead of the last
latest_block_First(c) == c[1]

\* self.chain.last().unwrap()   (panics on an empty chain)
latest_block(c) == c[Len(c)]

\* variant: index one too large
NewBlock_IndexOffByOne(c, data, utc_now) ==
    BlockNew(Len(c) + 1, data, latest_block(c).hash, utc_now)

\* the block add_block pushes: Block::new(self.chain.len() as u32, data, prev_hash)
\* (the cast is the identity for the chain lengths below 2^32 reached here)
NewBlock(c, data, utc_now) == BlockNew(Len(c), data, latest_block(c).hash, utc_now)

\* variant: the new block is put in front
add_block_Prepend(c, data, utc_now) == <<NewBlock(c, data, utc_now)>> \o c

\* fn add_block(&mut self, data: String)
add_block(c, data, utc_now) == Append(c, NewBlock(c, data, utc_now))

RECURSIVE ValidFrom(_, _)
\* the loop body from the 0-based index i on: return false at the first failing check, true at the end
ValidFrom(c, i) ==
    IF i >= Len(c) THEN TRUE
    ELSE IF c[i + 1].hash # calculate_hash(c[i + 1]) THEN FALSE
    ELSE IF c[i + 1].prev_hash # c[i].hash THEN FALSE
    ELSE ValidFrom(c, i + 1)

\* variant: the genesis block's own digest is checked too
is_valid_chain_WithGenesis(c) ==
    /\ c[1].hash = calculate_hash(c[1])
    /\ ValidFrom(c, 1)

\* variant: the loop starts at index 2
is_valid_chain_From2(c) == ValidFrom(c, 2)

\* for i in 1..self.chain.len() { ... } true
is_valid_chain(c) == ValidFrom(c, 1)

BoolStr(b) == IF b THEN "true" ELSE "false"

\* ---------------------------------------------------------------- actions
Init ==
    /\ \E t \in TimeValues :
          /\ chain = BlockchainNew(t)
          /\ new_clock = <<t>>
    /\ chain_2 = <<>>
    /\ block = <<>>
    /\ valid_ret = "none"
    /\ tampered = FALSE
    /\ call_args = <<>>
    /\ pc = "idle"
    /\ work = <<>>

\* blockchain.add_block(data)
AddBlock ==
    /\ Len(chain) < MaxChain
    /\ \E data \in DataValues, t \in TimeValues :
          /\ chain' = add_block(chain, data, t)
          /\ call_args' = <<[data |-> data, utc_now |-> t]>>
    /\ valid_ret' = "none"
    /\ UNCHANGED <<chain_2, block, tampered, new_clock, mining_vars>>

\* variant: verification overwrites a stored hash that does not match
IsValidChain_Repairing ==
    /\ valid_ret' = BoolStr(is_valid_chain(chain))
    /\ chain' = [i \in 1..Len(chain) |->
                    IF i >= 2 /\ chain[i].hash # calculate_hash(chain[i])
                    THEN [chain[i] EXCEPT !.hash = calculate_hash(chain[i])]
                    ELSE chain[i]]
    /\ UNCHANGED <<chain_2, block, tampered, new_clock, call_args, mining_vars>>

\* blockchain.is_valid_chain()
IsValidChain ==
    /\ valid_ret' = BoolStr(is_valid_chain(chain))
    /\ UNCHANGED <<chain, chain_2, block, tampered, new_clock, call_args, mining_vars>>

\* let blockchain_2 = Blockchain::new()
BlockchainNew2 ==
    /\ \E t \in TimeValues :
          /\ chain_2' = BlockchainNew(t)
          /\ new_clock' = <<new_clock[1], t>>
    /\ UNCHANGED <<chain, block, valid_ret, tampered, call_args, mining_vars>>

\* let block = Block::new(index, data, prev_hash)
BlockNewCall ==
    /\ \E index \in IndexValues, data \in DataValues,
          prev_hash \in PrevHashValues, t \in TimeValues :
          block' = <<BlockNew(index, data, prev_hash, t)>>
    /\ UNCHANGED <<chain, chain_2, valid_ret, tampered, new_clock, call_args, mining_vars>>

\* hash strings an outside mutation may write into block i (1-based)
HashValues(c, i) ==
    {<<>>, calculate_hash(c[i]), c[1].hash}

\* values an outside mutation may write into a field of block i (1-based)
FieldValues(c, i, field) ==
    CASE field = "index"     -> {0, Len(c)}
      [] field = "timestamp" -> TimeValues \cup {0}
      [] field = "data"      -> DataValues \cup {GenesisData}
      [] field = "prev_hash" -> HashValues(c, i)
      [] field = "hash"      -> HashValues(c, i)
      [] field = "nonce"     -> NonceValues

FieldNames == {"index", "timestamp", "data", "prev_hash", "hash", "nonce"}

\* blockchain.chain[i].field = v
SetField(c, i, field, v) ==
    CASE field = "index"     -> [c EXCEPT ![i].index = v]
      [] field = "timestamp" -> [c EXCEPT ![i].timestamp = v]
      [] field = "data"      -> [c EXCEPT ![i].data = v]
      [] field = "prev_hash" -> [c EXCEPT ![i].prev_hash = v]
      [] field = "hash"      -> [c EXCEPT ![i].hash = v]
      [] field = "nonce"     -> [c EXCEPT ![i].nonce = v]

\* a field of a block is overwritten from outside, as in
\* blockchain.chain[1].data = "Tampered Data".to_owned(); a run has one such
\* assignment, made at any point between the calls
Tamper ==
    /\ ~tampered
    /\ \E i \in 1..Len(chain), field \in FieldNames :
          \E v \in FieldValues(chain, i, field) :
             /\ chain[i][field] # v
             /\ chain' = SetField(chain, i, field, v)
    /\ tampered' = TRUE
    /\ valid_ret' = "none"
    /\ UNCHANGED <<chain_2, block, new_clock, call_args, mining_vars>>

\* the program as its own callers use it
Next == AddBlock \/ IsValidChain \/ BlockchainNew2 \/ BlockNewCall

Spec == Init /\ [][Next]_vars

\* the program with outside mutation of block fields
NextTamper == AddBlock \/ IsValidChain \/ Tamper

SpecTamper == Init /\ [][NextTamper]_vars

\* ------------------------------------------- mining as a multi-step search
\* the block as mine_block's loop first sees it: the literal of Block::new with
\* self.hash = self.calculate_hash() done once
BlockInit(index, data, prev_hash, utc_now) ==
    LET b == [index |-> index, timestamp |-> utc_now, data |-> data,
              prev_hash |-> prev_hash, hash |-> <<>>, nonce |-> 0]
    IN  [b EXCEPT !.hash = calculate_hash(b)]

\* the loop condition: &self.hash[..difficulty] != target
LoopCond(b, difficulty) == SubSeq(b.hash, 1, difficulty) # Repeat0(difficulty)

\* variant: the block is handed out while the loop may still be running
MineReturned_Early(b, difficulty) == TRUE

\* mine_block returns, and with it Block::new, once the loop condition is false
MineReturned(b, difficulty) == ~LoopCond(b, difficulty)

\* Blockchain::new() has built the genesis literal and entered mine_block
InitMine ==
    /\ \E t \in TimeValues :
          /\ work = <<[GenesisBlock(t) EXCEPT !.hash = calculate_hash(GenesisBlock(t))]>>
          /\ new_clock = <<t>>
    /\ pc = "new"
    /\ chain = <<>>
    /\ chain_2 = <<>>
    /\ block = <<>>
    /\ valid_ret = "none"
    /\ tampered = FALSE
    /\ call_args = <<>>

\* one iteration of the mining loop
MineTrial ==
    /\ pc \in {"new", "add_block"}
    /\ LoopCond(work[1], Difficulty)
    /\ work' = <<MineStep(work[1])>>
    /\ UNCHANGED <<chain, chain_2, block, valid_ret, tampered, new_clock, call_args, pc>>

\* Blockchain::new returns Blockchain { chain: vec![genesis_block] }
NewReturn ==
    /\ pc = "new"
    /\ MineReturned(work[1], Difficulty)
    /\ chain' = <<work[1]>>
    /\ pc' = "idle"
    /\ work' = <<>>
    /\ UNCHANGED <<chain_2, block, valid_ret, tampered, new_clock, call_args>>

\* add_block(data) reads latest_block().hash and enters Block::new
AddBlockStart ==
    /\ pc = "idle"
    /\ Len(chain) < MaxChain
    /\ \E data \in DataValues, t \in TimeValues :
          /\ work' = <<BlockInit(Len(chain), data, latest_block(chain).hash, t)>>
          /\ call_args' = <<[data |-> data, utc_now |-> t]>>
    /\ pc' = "add_block"
    /\ valid_ret' = "none"
    /\ UNCHANGED <<chain, chain_2, block, tampered, new_clock>>

\* Block::new has returned: self.chain.push(new_block)
AddBlockPush ==
    /\ pc = "add_block"
    /\ MineReturned(work[1], Difficulty)
    /\ chain' = Append(chain, work[1])
    /\ pc' = "idle"
    /\ work' = <<>>
    /\ UNCHANGED <<chain_2, block, valid_ret, tampered, new_clock, call_args>>

\* is_valid_chain() called between the other calls
IsValidChainIdle ==
    /\ pc = "idle"
    /\ IsValidChain

NextMine == MineTrial \/ NewReturn \/ AddBlockStart \/ AddBlockPush \/ IsValidChainIdle

SpecMine == InitMine /\ [][NextMine]_vars

TypeOK ==
    /\ Len(chain) <= MaxChain
    /\ valid_ret \in {"none", "true", "false"}
    /\ tampered \in BOOLEAN
    /\ pc \in {"idle", "new", "add_block"}
    /\ Len(work) = (IF pc = "idle" THEN 0 ELSE 1)
    /\ Len(call_args) <= 1

\* ------------------------------------------------------------ properties
\* every block the program has constructed so far
AllBlocks ==
    {chain[i] : i \in 1..Len(chain)} \cup {chain_2[i] : i \in 1..Len(chain_2)}
        \cup {block[i] : i \in 1..Len(block)}

\* "0000"
FourZeros == <<48, 48, 48, 48>>

\* c is a chain Blockchain::new followed by add_block calls produces, for the
\* payloads and clock readings stored in c
Built(c) ==
    /\ Len(c) >= 1
    /\ \E t \in TimeValues : <<c[1]>> = BlockchainNew(t)
    /\ \A i \in 2..Len(c) :
          c[i] = BlockNew(i - 1, c[i].data, c[i - 1].hash, c[i].timestamp)

\* C1: every chain produced by Blockchain::new and any sequence of add_block
\* calls, with no field mutated from outside, is reported valid by
\* is_valid_chain.
C1_BuiltChainIsValid ==
    /\ is_valid_chain(chain)
    /\ valid_ret # "false"

C1_Witness ==
    /\ Len(chain) >= 3
    /\ valid_ret = "true"
    /\ chain[2].data # chain[3].data
    /\ chain[2].timestamp # chain[3].timestamp

\* chain c is a built chain of length >= 2 in which only the data of the
\* block at Rust index 1 was replaced by a different value
OnlyData1Replaced(c) ==
    /\ Len(c) >= 2
    /\ \E d \in DataValues :
          /\ d # c[2].data
          /\ Built([c EXCEPT ![2].data = d])

\* C2: replacing chain[1].data of a built chain of length >= 2 by a different
\* value, every other field left as it was, makes is_valid_chain return false.
C2_TamperedDataDetected ==
    OnlyData1Replaced(chain) =>
        /\ ~is_valid_chain(chain)
        /\ valid_ret # "true"

C2_Witness ==
    /\ OnlyData1Replaced(chain)
    /\ tampered
    /\ valid_ret = "false"

\* C3: in every chain built by Blockchain::new and add_block, each block's
\* prev_hash equals the hash of the block before it.
C3_Linkage ==
    \A i \in 2..Len(chain) : chain[i].prev_hash = chain[i - 1].hash

C3_Witness ==
    /\ Len(chain) >= 3
    /\ chain[3].prev_hash = chain[2].hash
    /\ chain[2].hash # chain[1].hash

\* C4: the hash of every block returned by Block::new and of every block of a
\* built chain, genesis included, starts with four '0' characters.
C4_ProofOfWork ==
    \A b \in AllBlocks :
        /\ Len(b.hash) >= 4
        /\ SubSeq(b.hash, 1, 4) = FourZeros

C4_Witness ==
    /\ block # <<>>
    /\ block[1].nonce > 0
    /\ Len(chain) >= 2
    /\ chain[2].nonce > 0
    /\ SubSeq(chain[1].hash, 1, 4) = FourZeros

\* C5: for every block produced by mining, calculate_hash of the stored
\* fields, the stored final nonce included, equals the stored hash.
C5_DigestRoundTrip ==
    \A b \in AllBlocks : calculate_hash(b) = b.hash

C5_Witness ==
    \E b \in AllBlocks :
        /\ b.nonce >= 2
        /\ calculate_hash(b) = b.hash
        /\ calculate_hash([b EXCEPT !.nonce = b.nonce - 1]) # b.hash

\* the two checks on the block at 1-based position i: its stored hash is the
\* digest of its fields, and its prev_hash is the hash of the block before it
PairOk(c, i) ==
    /\ calculate_hash(c[i]) = c[i].hash
    /\ c[i].prev_hash = c[i - 1].hash

AllPairsOk(c) == \A i \in 2..Len(c) : PairOk(c, i)

\* C6: is_valid_chain returns true exactly when every block after the first
\* passes both checks, for arbitrary (also tampered) chain contents; the early
\* return gives the same result as evaluating every pair.
C6_ValidIffAllPairs ==
    /\ is_valid_chain(chain) <=> AllPairsOk(chain)
    /\ valid_ret = "true" => AllPairsOk(chain)
    /\ valid_ret = "false" => ~AllPairsOk(chain)

C6_Witness ==
    /\ Len(chain) >= 3
    /\ tampered
    /\ valid_ret = "false"
    /\ ~PairOk(chain, 2)
    /\ PairOk(chain, 3)

\* the shape of a freshly constructed Blockchain
GenesisShape(c) ==
    /\ Len(c) = 1
    /\ c[1].index = 0
    /\ c[1].data = GenesisData
    /\ c[1].prev_hash = <<>>
    /\ Len(c[1].hash) >= 4
    /\ SubSeq(c[1].hash, 1, 4) = FourZeros

\* C7: Blockchain::new yields a chain of length exactly 1 whose block has
\* index 0, data "Genesis Block", empty prev_hash and a hash with four leading
\* zeros.
C7_GenesisShape ==
    /\ chain_2 # <<>> => GenesisShape(chain_2)
    /\ Len(chain) <= 1 => GenesisShape(chain)

C7_Witness ==
    /\ chain_2 # <<>>
    /\ GenesisShape(chain_2)
    /\ Len(chain) = 1

\* C8: in every chain built by Blockchain::new and add_block, the first block
\* has index 0 and every other block's index is its predecessor's plus 1; the
\* index derived from chain.len() agrees with latest.index + 1.
C8_IndexSequence ==
    /\ chain[1].index = 0
    /\ \A i \in 2..Len(chain) : chain[i].index = chain[i - 1].index + 1
    /\ Len(chain) = latest_block(chain).index + 1

C8_Witness ==
    /\ Len(chain) >= 3
    /\ chain[2].index = 1
    /\ chain[3].index = 2

\* C9: two independent Blockchain::new calls, at any two clock readings, give
\* genesis blocks equal in hash, nonce and every other field.
C9_GenesisDeterministic ==
    chain_2 # <<>> => chain_2[1] = chain[1]

C9_Witness ==
    /\ chain_2 # <<>>
    /\ Len(new_clock) = 2
    /\ new_clock[1] # new_clock[2]
    /\ chain_2[1].hash = chain[1].hash
    /\ chain_2[1].nonce = chain[1].nonce

\* C10: after Blockchain::new and any sequence of add_block and
\* is_valid_chain calls the chain is non-empty, its first block has index 0
\* and an empty prev_hash, so latest_block's unwrap finds a block.
C10_NonEmpty ==
    /\ Len(chain) >= 1
    /\ chain[1].index = 0
    /\ chain[1].prev_hash = <<>>

C10_Witness ==
    /\ Len(chain) >= 2
    /\ valid_ret # "none"
    /\ chain[1].prev_hash = <<>>
    /\ latest_block(chain) = chain[Len(chain)]

\* C11: each add_block call makes the chain exactly one block longer, puts the
\* new block at the end with the data the caller gave, and leaves every block
\* that was there unchanged and in place; no step removes or reorders blocks.
C11_AppendOnlyFrame ==
    [][/\ Len(chain') >= Len(chain)
       /\ SubSeq(chain', 1, Len(chain)) = chain
       /\ (chain' # chain \/ call_args' # call_args) =>
             /\ Len(chain') = Len(chain) + 1
             /\ call_args' # <<>>
             /\ chain'[Len(chain')].data = call_args'[1].data]_vars

C11_Witness ==
    /\ Len(chain) >= 3
    /\ call_args # <<>>
    /\ chain[Len(chain)].data = call_args[1].data
    /\ chain[Len(chain) - 1].data # call_args[1].data

\* the hash of b has four leading zeros and is the digest of b's fields
FullyMined(b) ==
    /\ Len(b.hash) >= 4
    /\ SubSeq(b.hash, 1, 4) = FourZeros
    /\ b.hash = calculate_hash(b)

\* C13: with mining as a multi-step nonce search, at every intermediate step
\* of Blockchain::new and add_block every block contained in the chain has
\* four leading zeros and hash == calculate_hash, and the block being mined is
\* not in the chain before its loop has finished.
C13_NoPartiallyMinedBlock ==
    /\ \A i \in 1..Len(chain) : FullyMined(chain[i])
    /\ pc # "idle" => /\ Len(chain) = work[1].index
                      /\ \A i \in 1..Len(chain) : chain[i] # work[1]

C13_Witness ==
    /\ pc = "add_block"
    /\ Len(chain) >= 2
    /\ work[1].nonce >= 1
    /\ ~FullyMined(work[1])
    /\ \A i \in 1..Len(chain) : FullyMined(chain[i])

\* C14: is_valid_chain leaves the chain unchanged, and consecutive calls on an
\* unmodified chain, valid or tampered, return the same boolean.
C14_VerificationReadOnly ==
    [][valid_ret' # "none" =>
          /\ chain' = chain
          /\ valid_ret # "none" => valid_ret' = valid_ret
          /\ valid_ret' = BoolStr(is_valid_chain(chain'))]_vars

C14_Witness ==
    /\ tampered
    /\ valid_ret = "false"
    /\ Len(chain) >= 2
    /\ BoolStr(is_valid_chain(chain)) = valid_ret
    /\ \E i \in 2..Len(chain) : chain[i].hash # calculate_hash(chain[i])

\* b with the first character of its data moved to the end of its timestamp
ShiftDataIntoTimestamp(b) ==
    [b EXCEPT !.timestamp = 10 * b.timestamp + (b.data[1] - 48), !.data = Tail(b.data)]

\* b with the first character of its data moved to the end of its index
ShiftDataIntoIndex(b) ==
    [b EXCEPT !.index = 10 * b.index + (b.data[1] - 48), !.data = Tail(b.data)]

\* the data of b starts with a decimal digit
DataStartsWithDigit(b) == b.data # <<>> /\ b.data[1] \in 48..57

\* every character of string s is k
AllChars(s, k) == \A i \in 1..Len(s) : s[i] = k

\* C15: the digest input is not injective in the block fields.  Moving a
\* leading digit of data to the end of the timestamp, or (when the timestamp
\* is written with that digit only) to the end of the index, gives a block
\* with different fields, the same concatenated string and the same digest.
C15_ContentNotInjective ==
    \A b \in AllBlocks :
        /\ (DataStartsWithDigit(b) /\ b.timestamp >= 1) =>
              /\ ShiftDataIntoTimestamp(b).data # b.data
              /\ ShiftDataIntoTimestamp(b).timestamp # b.timestamp
              /\ Content(ShiftDataIntoTimestamp(b)) = Content(b)
              /\ calculate_hash(ShiftDataIntoTimestamp(b)) = b.hash
        /\ (DataStartsWithDigit(b) /\ b.index >= 1 /\ b.timestamp >= 1
               /\ AllChars(Display(b.timestamp), b.data[1])) =>
              /\ <<ShiftDataIntoIndex(b).index, ShiftDataIntoIndex(b).data>>
                    # <<b.index, b.data>>
              /\ ShiftDataIntoIndex(b).timestamp = b.timestamp
              /\ Content(ShiftDataIntoIndex(b)) = Content(b)
              /\ calculate_hash(ShiftDataIntoIndex(b)) = b.hash

C15_Witness ==
    /\ block # <<>>
    /\ block[1].index = 1
    /\ block[1].timestamp = 1
    /\ block[1].data = <<49>>
    /\ ShiftDataIntoIndex(block[1]).index = 11
    /\ ShiftDataIntoIndex(block[1]).data = <<>>
    /\ Content(ShiftDataIntoIndex(block[1])) = Content(block[1])
    /\ calculate_hash(ShiftDataIntoIndex(block[1])) = block[1].hash
    /\ Len(chain) >= 2
    /\ chain[2].data = <<49>>
    /\ calculate_hash(ShiftDataIntoTimestamp(chain[2])) = chain[2].hash

\* the digest of b with nonce n in place of its own has four leading zeros
WinsAt(b, n) ==
    SubSeq(calculate_hash([b EXCEPT !.nonce = n]), 1, 4) = FourZeros

\* the nonce of b is the smallest one whose digest has four leading zeros
MinimalNonce(b) ==
    /\ WinsAt(b, b.nonce)
    /\ \A n \in 0..(b.nonce - 1) : ~WinsAt(b, n)

\* C16: the search starts at nonce 0 and adds 1 per failed trial, so every
\* nonce below the current one has failed and the nonce of a mined block is the
\* smallest winning one; index, timestamp, data and prev_hash stay what
\* Block::new was given.
C16_NonceMinimal ==
    /\ \A i \in 1..Len(chain) : MinimalNonce(chain[i])
    /\ pc # "idle" =>
          /\ \A n \in 0..(work[1].nonce - 1) : ~WinsAt(work[1], n)
          /\ work[1].hash = calculate_hash(work[1])
    /\ pc = "new" =>
          [work[1] EXCEPT !.hash = <<>>, !.nonce = 0] = GenesisBlock(new_clock[1])
    /\ pc = "add_block" =>
          /\ work[1].index = Len(chain)
          /\ work[1].timestamp = call_args[1].utc_now
          /\ work[1].data = call_args[1].data
          /\ work[1].prev_hash = chain[Len(chain)].hash
    /\ (pc = "idle" /\ Len(chain) >= 2) =>
          /\ chain[Len(chain)].index = Len(chain) - 1
          /\ chain[Len(chain)].timestamp = call_args[1].utc_now
          /\ chain[Len(chain)].data = call_args[1].data
          /\ chain[Len(chain)].prev_hash = chain[Len(chain) - 1].hash

C16_Witness ==
    /\ pc = "idle"
    /\ Len(chain) >= 2
    /\ chain[Len(chain)].nonce >= 2
    /\ MinimalNonce(chain[Len(chain)])
    /\ chain[Len(chain)].data = call_args[1].data

\* the fields of the genesis block other than its hash
ContentFields == FieldNames \ {"hash"}

\* C17: is_valid_chain reads only the hash of chain[0]: overwriting any other
\* field of chain[0] on a valid chain leaves the chain valid, and every chain
\* of length 1 is reported valid whatever it contains.
C17_GenesisNotVerified ==
    /\ is_valid_chain(chain) =>
          \A field \in ContentFields :
             \A v \in FieldValues(chain, 1, field) :
                is_valid_chain(SetField(chain, 1, field, v))
    /\ Len(chain) = 1 => is_valid_chain(chain) /\ valid_ret # "false"

C17_Witness ==
    /\ tampered
    /\ Len(chain) >= 2
    /\ chain[1].data # GenesisData
    /\ chain[1].hash # calculate_hash(chain[1])
    /\ valid_ret = "true"
====
